---- MODULE Spec2Model ----
(***************************************************************************)
(* Model of func_analyzer/utils.py: the annotation normalizer              *)
(* (clean_annotation_string, with its AST path and its pattern fallback)   *)
(* and the docstring parameter extractor (parse_docstring_params, with its *)
(* manual fallback).                                                       *)
(*                                                                         *)
(* A Python str is modelled as a sequence of one-character strings, so     *)
(* that tokenizing, regular-expression matching, repr() and rendering are  *)
(* computed character by character as the code computes them.              *)
(***************************************************************************)
EXTENDS Integers, Sequences, FiniteSets, TLC

(***************************************************************************)
(* Characters                                                              *)
(***************************************************************************)
Lower == {"a","b","c","d","e","f","g","h","i","j","k","l","m",
          "n","o","p","q","r","s","t","u","v","w","x","y","z"}

Upper == {"A","B","C","D","E","F","G","H","I","J","K","L","M",
          "N","O","P","Q","R","S","T","U","V","W","X","Y","Z"}

Digit == {"0","1","2","3","4","5","6","7","8","9"}

\* \w of module re, on ASCII text: [a-zA-Z0-9_]
WordChar == Lower \cup Upper \cup Digit \cup {"_"}

\* \s of module re in a str pattern, and the characters str.strip() strips:
\* the characters c with c.isspace().  After the five with an escape come
\* U+000B and U+001C..U+001F, then U+0085, U+00A0 and U+1680.  The other
\* spaces of Unicode (U+2000..U+200A, U+2028, U+2029, U+202F, U+205F, U+3000)
\* are characters no string of this module can hold.
SpaceChar ==
    {" ", "\t", "\n", "\r", "\f"}
    \cup {"", "", "", "", ""}
    \cup {"", " ", " "}

SQ == "'"

DQ == "\""

BS == "\\"

NL == "\n"

RECURSIVE Concat(_)
\* ''.join(parts) for a sequence of strings
Concat(parts) ==
    IF parts = <<>> THEN <<>> ELSE Head(parts) \o Concat(Tail(parts))

Chars(s) == {s[i] : i \in 1..Len(s)}

(***************************************************************************)
(* Module re: a backtracking matcher over the regular expressions the      *)
(* source uses.  A pattern is a sequence of items; an item is a repeated   *)
(* character class (greedy or lazy), a group boundary, a lookahead over    *)
(* alternatives, or an end anchor.  Alternatives of a repetition are tried *)
(* in re's priority order (greedy: longest first, lazy: shortest first).   *)
(***************************************************************************)
In(set) == [neg |-> FALSE, set |-> set]

NotIn(set) == [neg |-> TRUE, set |-> set]

\* "." under re.DOTALL
AnyChar == NotIn({})

\* "." without re.DOTALL
NotNewline == NotIn({NL})

InCls(c, cls) == (c \in cls.set) # cls.neg

One(cls) == [k |-> "rep", cls |-> cls, min |-> 1, many |-> FALSE, greedy |-> TRUE]

Star(cls) == [k |-> "rep", cls |-> cls, min |-> 0, many |-> TRUE, greedy |-> TRUE]

Plus(cls) == [k |-> "rep", cls |-> cls, min |-> 1, many |-> TRUE, greedy |-> TRUE]

LazyStar(cls) == [k |-> "rep", cls |-> cls, min |-> 0, many |-> TRUE, greedy |-> FALSE]

LazyPlus(cls) == [k |-> "rep", cls |-> cls, min |-> 1, many |-> TRUE, greedy |-> FALSE]

GroupOpen(n) == [k |-> "open", n |-> n]

GroupClose(n) == [k |-> "close", n |-> n]

\* (?=alt1|alt2|...)
Lookahead(alts) == [k |-> "look", alts |-> alts]

\* "$": with re.MULTILINE before every newline too
Dollar(multiline) == [k |-> "dollar", multiline |-> multiline]

\* "\Z"
EndOfText == [k |-> "Z"]

\* a literal piece of a pattern
Lit(s) == <<[k |-> "lit", s |-> s]>>

NoGroups == <<<<0, 0>>, <<0, 0>>>>

NoMatch == [ok |-> FALSE, end |-> 0, g |-> NoGroups]

\* how many characters from position p on a repetition of cls can take
RunLen(cls, s, p, many) ==
    LET lim == IF p > Len(s) THEN 0 ELSE IF many THEN Len(s) - p + 1 ELSE 1 IN
    CHOOSE n \in 0..lim :
        /\ \A i \in 0..(n - 1) : InCls(s[p + i], cls)
        /\ n = lim \/ ~InCls(s[p + n], cls)

DollarAt(s, p, multiline) ==
    \/ p = Len(s) + 1
    \/ multiline /\ s[p] = NL
    \/ ~multiline /\ p = Len(s) /\ s[p] = NL

RECURSIVE ReMatch(_, _, _, _, _)
\* the rest re[k..] of a pattern matched at position p of s: the first
\* success in priority order, with the end position and the groups.  For a
\* repetition every count it can take is tried; the first in priority order
\* is the longest (greedy) or the shortest (lazy) one that lets the rest
\* match.
ReMatch(re, k, s, p, g) ==
    IF k > Len(re) THEN [ok |-> TRUE, end |-> p, g |-> g]
    ELSE LET it == re[k] IN
      CASE it.k = "rep" ->
             LET run == RunLen(it.cls, s, p, it.many)
                 tries == {[n |-> n, m |-> ReMatch(re, k + 1, s, p + n, g)] :
                              n \in it.min..run}
                 good == {c \in tries : c.m.ok}
             IN  IF good = {} THEN NoMatch
                 ELSE (CHOOSE c \in good : \A d \in good :
                          IF it.greedy THEN d.n <= c.n ELSE d.n >= c.n).m
        [] it.k = "lit" ->
             IF p + Len(it.s) - 1 <= Len(s) /\ SubSeq(s, p, p + Len(it.s) - 1) = it.s
             THEN ReMatch(re, k + 1, s, p + Len(it.s), g)
             ELSE NoMatch
        [] it.k = "open" ->
             ReMatch(re, k + 1, s, p, [g EXCEPT ![it.n] = <<p, p>>])
        [] it.k = "close" ->
             ReMatch(re, k + 1, s, p, [g EXCEPT ![it.n] = <<g[it.n][1], p>>])
        [] it.k = "look" ->
             IF \E a \in 1..Len(it.alts) : ReMatch(it.alts[a], 1, s, p, NoGroups).ok
             THEN ReMatch(re, k + 1, s, p, g)
             ELSE NoMatch
        [] it.k = "dollar" ->
             IF DollarAt(s, p, it.multiline) THEN ReMatch(re, k + 1, s, p, g)
             ELSE NoMatch
        [] it.k = "Z" ->
             IF p = Len(s) + 1 THEN ReMatch(re, k + 1, s, p, g) ELSE NoMatch

Group(s, m, n) == SubSeq(s, m.g[n][1], m.g[n][2] - 1)

\* the (non-empty) match of re at every position of s that has one
MatchesAt(re, s) ==
    LET all == {[start |-> q, m |-> ReMatch(re, 1, s, q, NoGroups)] : q \in 1..Len(s)}
    IN  {c \in all : c.m.ok /\ c.m.end > c.start}

RECURSIVE LeftToRight(_, _)
\* the non-overlapping matches among found, scanning from position p
LeftToRight(found, p) ==
    LET later == {c \in found : c.start >= p} IN
    IF later = {} THEN <<>>
    ELSE LET c == CHOOSE c \in later : \A d \in later : c.start <= d.start IN
         <<[start |-> c.start, end |-> c.m.end, g |-> c.m.g]>>
         \o LeftToRight(found, c.m.end)

\* re.finditer(re, s): the non-overlapping matches, left to right, each as
\* [start, end, g]
ReFindAll(re, s) == LeftToRight(MatchesAt(re, s), 1)

\* re.search(re, s): the leftmost match, or NoMatch
ReSearch(re, s) ==
    LET ms == ReFindAll(re, s) IN
    IF ms = <<>> THEN NoMatch ELSE [ok |-> TRUE, end |-> ms[1].end, g |-> ms[1].g]

RECURSIVE ReSubFrom(_, _, _, _, _)
\* re.sub over the matches ms[i..]: the text from position p on with every
\* match replaced; repl is <<>> (the empty string) or <<n>> (the group
\* reference \n)
ReSubFrom(ms, i, repl, s, p) ==
    IF i > Len(ms) THEN SubSeq(s, p, Len(s))
    ELSE SubSeq(s, p, ms[i].start - 1)
         \o (IF repl = <<>> THEN <<>> ELSE Group(s, ms[i], repl[1]))
         \o ReSubFrom(ms, i + 1, repl, s, ms[i].end)

ReSub(re, repl, s) == ReSubFrom(ReFindAll(re, s), 1, repl, s, 1)

(***************************************************************************)
(* clean_annotation_pattern: the ordered substitutions of lines 85-93      *)
(***************************************************************************)
WordStart == Lower \cup Upper \cup {"_"}

\* r'typing\.'
PatTyping == Lit(<<"t","y","p","i","n","g",".">>)

\* r'__main__\.'
PatMain == Lit(<<"_","_","m","a","i","n","_","_",".">>)

\* r'builtins\.'
PatBuiltins == Lit(<<"b","u","i","l","t","i","n","s",".">>)

\* r'collections\.abc\.'
PatCollectionsAbc ==
    Lit(<<"c","o","l","l","e","c","t","i","o","n","s",".","a","b","c",".">>)

\* r'[a-zA-Z_][a-zA-Z0-9_]*\.([A-Z][a-zA-Z0-9_]*)'
PatModuleClass ==
    <<One(In(WordStart)), Star(In(WordChar)), One(In({"."})),
      GroupOpen(1), One(In(Upper)), Star(In(WordChar)), GroupClose(1)>>

ClassOpen == <<"<","c","l","a","s","s"," ","'">>

ClassClose == <<"'",">">>

\* rule 6 written for a repr in double quotes
PatClassWordDoubleQuoted ==
    Lit(<<"<","c","l","a","s","s"," ",DQ>>)
    \o <<GroupOpen(1), Plus(In(WordChar)), GroupClose(1)>>
    \o Lit(<<DQ,">">>)

\* r"<class '(\w+)'>"
PatClassWord ==
    Lit(ClassOpen) \o <<GroupOpen(1), Plus(In(WordChar)), GroupClose(1)>>
    \o Lit(ClassClose)

\* r"<class '(\w+\.\w+)'>"
PatClassDotted ==
    Lit(ClassOpen)
    \o <<GroupOpen(1), Plus(In(WordChar)), One(In({"."})), Plus(In(WordChar)),
         GroupClose(1)>>
    \o Lit(ClassClose)

\* the list `patterns`: (pattern, replacement) in the order of the source
patterns ==
    << <<PatTyping, <<>>>>,
       <<PatMain, <<>>>>,
       <<PatBuiltins, <<>>>>,
       <<PatCollectionsAbc, <<>>>>,
       <<PatModuleClass, <<1>>>>,
       <<PatClassWord, <<1>>>>,
       <<PatClassDotted, <<1>>>> >>

RECURSIVE ApplyPatterns(_, _, _)
\* the loop of lines 95-97 from pattern number i on
ApplyPatterns(pats, i, cleaned) ==
    IF i > Len(pats) THEN cleaned
    ELSE ApplyPatterns(pats, i + 1, ReSub(pats[i][1], pats[i][2], cleaned))

clean_annotation_pattern(annotation_str) == ApplyPatterns(patterns, 1, annotation_str)

(***************************************************************************)
(* ast.parse(annotation_str, mode='eval') of line 69.                      *)
(*                                                                         *)
(* The tokenizer and the expression grammar of Python are modelled over    *)
(* the characters annotation text is made of here: letters, "_", the       *)
(* space, the quotes, the backslash inside a string literal, and           *)
(* . [ ] , | ( ) + < > {                                                   *)
(* Over that alphabet the grammar has names, the constants None, True,     *)
(* False and ..., string literals (with the prefixes b, u, r and f,        *)
(* adjacent ones concatenated, also triple-quoted), attribute access,      *)
(* subscripts, calls, list and tuple displays, unary +, the binary         *)
(* operators + << >> |, and the comparisons < >.  The result is the tree   *)
(* of ast nodes, or SyntaxError.                                           *)
(*                                                                         *)
(* Not part of the annotation text drawn below, and read as SyntaxError:   *)
(* numbers; the expressions built with the operator keywords (not, and,    *)
(* or, in, is, if-else, for, await, yield); white space other than the     *)
(* space; and, in a literal that is not raw, the escapes whose character   *)
(* repr() writes with digits (\a \b \f \v, octal, \x and \u).  The         *)
(* interpreter's recursion limit, which expressions several hundred        *)
(* levels deep reach, is not modelled either.                              *)
(***************************************************************************)
SyntaxError == [ok |-> FALSE]

\* the one-character operators and delimiters of the alphabet
OneCharOps == {".", "[", "]", ",", "|", "(", ")", "+", "<", ">", "{"}

\* the keywords that are constants
ConstNames == {<<"N","o","n","e">>, <<"T","r","u","e">>, <<"F","a","l","s","e">>}

\* the keywords of statements, which no expression can hold
Keywords == {<<"a","s">>, <<"a","s","s","e","r","t">>,
             <<"a","s","y","n","c">>, <<"b","r","e","a","k">>,
             <<"c","l","a","s","s">>, <<"c","o","n","t","i","n","u","e">>,
             <<"d","e","f">>, <<"d","e","l">>, <<"e","l","i","f">>,
             <<"e","x","c","e","p","t">>, <<"f","i","n","a","l","l","y">>,
             <<"f","r","o","m">>, <<"g","l","o","b","a","l">>,
             <<"i","m","p","o","r","t">>,
             <<"n","o","n","l","o","c","a","l">>, <<"p","a","s","s">>,
             <<"r","a","i","s","e">>, <<"r","e","t","u","r","n">>,
             <<"t","r","y">>, <<"w","h","i","l","e">>, <<"w","i","t","h">>}

\* the keywords of operators and of compound expressions: none of them is a
\* name or an attribute
OperatorKeywords == {<<"a","n","d">>, <<"a","w","a","i","t">>,
                     <<"e","l","s","e">>, <<"f","o","r">>, <<"i","f">>,
                     <<"i","n">>, <<"i","s">>, <<"l","a","m","b","d","a">>,
                     <<"n","o","t">>, <<"o","r">>, <<"y","i","e","l","d">>}

Ellipsis == <<".", ".", ".">>

At(s, p) == IF p >= 1 /\ p <= Len(s) THEN s[p] ELSE ""

\* the letters of the string prefixes
BytesLetter == {"b", "B"}

RawLetter == {"r", "R"}

FormatLetter == {"f", "F"}

\* the string prefixes: b, u, r, f, and r next to b or to f, in either
\* order and in either case
StringPrefixes ==
    {<<x>> : x \in BytesLetter \cup RawLetter \cup FormatLetter \cup {"u", "U"}}
    \cup {<<x, y>> : x \in BytesLetter \cup FormatLetter, y \in RawLetter}
    \cup {<<y, x>> : x \in BytesLetter \cup FormatLetter, y \in RawLetter}

\* what a prefix makes of its literal
HasLetter(prefix, letters) == \E i \in 1..Len(prefix) : prefix[i] \in letters

LiteralKind(prefix) ==
    IF HasLetter(prefix, BytesLetter) THEN "bytes"
    ELSE IF HasLetter(prefix, FormatLetter) THEN "fstr"
    ELSE "str"

\* the tokenizer's limit on open brackets
MAXLEVEL == 200

\* the escapes \n, \r and \t and the characters they stand for
SimpleEscapes == [c \in {"n", "r", "t"} |-> CASE c = "n" -> NL
                                              [] c = "r" -> "\r"
                                              [] c = "t" -> "\t"]

\* the letters after a backslash that start a longer escape or stand for a
\* character repr() writes with digits; \u, \U and \N only in a str
OtherEscapes(kind) ==
    {"a", "b", "f", "v", "x"} \cup {"0", "1", "2", "3", "4", "5", "6", "7"}
    \cup (IF kind = "bytes" THEN {} ELSE {"u", "U", "N"})

\* what a literal of the given kind holds for a backslash followed by c, or
\* SyntaxError
Unescape(c, kind) ==
    IF c = "" THEN SyntaxError
    ELSE IF c \in {SQ, DQ, BS} THEN [ok |-> TRUE, v |-> <<c>>]
    ELSE IF c = NL THEN [ok |-> TRUE, v |-> <<>>]
    ELSE IF c \in DOMAIN SimpleEscapes THEN [ok |-> TRUE, v |-> <<SimpleEscapes[c]>>]
    ELSE IF c \in OtherEscapes(kind) THEN SyntaxError
    ELSE [ok |-> TRUE, v |-> <<BS, c>>]

RECURSIVE ScanQuoted(_, _, _, _, _, _)
\* the body of a string literal with the given prefix opened with quote q,
\* from position p to the closing delimiter: its value and the position
\* after it; in a raw literal a backslash and the character after it stand
\* for themselves
ScanQuoted(s, p, q, triple, prefix, acc) ==
    IF p > Len(s) THEN SyntaxError
    ELSE IF s[p] = BS
    THEN LET e == IF HasLetter(prefix, RawLetter)
                  THEN IF p < Len(s) THEN [ok |-> TRUE, v |-> <<BS, s[p + 1]>>]
                       ELSE SyntaxError
                  ELSE Unescape(At(s, p + 1), LiteralKind(prefix))
         IN  IF e.ok THEN ScanQuoted(s, p + 2, q, triple, prefix, acc \o e.v)
             ELSE SyntaxError
    ELSE IF triple /\ s[p] = q /\ At(s, p + 1) = q /\ At(s, p + 2) = q
    THEN [ok |-> TRUE, v |-> acc, next |-> p + 3]
    ELSE IF ~triple /\ s[p] = q
    THEN [ok |-> TRUE, v |-> acc, next |-> p + 1]
    ELSE IF ~triple /\ s[p] = NL THEN SyntaxError
    ELSE ScanQuoted(s, p + 1, q, triple, prefix, Append(acc, s[p]))

RECURSIVE Braces(_, _, _)
\* the literal text of an f-string with value v, from position p on: "{{"
\* stands for "{", and a single "{" opens a replacement field, which the
\* text cannot close
Braces(v, p, acc) ==
    IF p > Len(v) THEN [ok |-> TRUE, v |-> acc]
    ELSE IF v[p] # "{" THEN Braces(v, p + 1, Append(acc, v[p]))
    ELSE IF At(v, p + 1) = "{" THEN Braces(v, p + 2, Append(acc, "{"))
    ELSE SyntaxError

\* the string literal with the given prefix whose opening quote is at p
StringLiteral(s, p, prefix) ==
    LET q == s[p]
        triple == At(s, p + 1) = q /\ At(s, p + 2) = q
        lit == ScanQuoted(s, IF triple THEN p + 3 ELSE p + 1, q, triple, prefix, <<>>)
    IN  IF ~lit.ok THEN SyntaxError
        ELSE IF LiteralKind(prefix) # "fstr"
        THEN [ok |-> TRUE, next |-> lit.next,
              tok |-> [k |-> "STRING", kind |-> LiteralKind(prefix), v |-> lit.v]]
        ELSE LET text == Braces(lit.v, 1, <<>>) IN
             IF text.ok
             THEN [ok |-> TRUE, next |-> lit.next,
                   tok |-> [k |-> "STRING", kind |-> "fstr", v |-> text.v]]
             ELSE SyntaxError

RECURSIVE TokenizeFrom(_, _, _, _)
\* the tokens of s from position p on, appended to acc, with level brackets
\* open at p
TokenizeFrom(s, p, acc, level) ==
    IF p > Len(s) THEN [ok |-> TRUE, toks |-> acc]
    ELSE LET c == s[p] IN
      IF c = " " THEN TokenizeFrom(s, p + RunLen(In({" "}), s, p, TRUE), acc, level)
      ELSE IF c \in WordStart
      THEN LET n == RunLen(In(WordChar), s, p, TRUE)
               word == SubSeq(s, p, p + n - 1)
           IN  IF At(s, p + n) \in {SQ, DQ} /\ word \in StringPrefixes
               THEN LET lit == StringLiteral(s, p + n, word) IN
                    IF lit.ok THEN TokenizeFrom(s, lit.next, Append(acc, lit.tok), level)
                    ELSE SyntaxError
               ELSE TokenizeFrom(s, p + n, Append(acc, [k |-> "NAME", v |-> word]), level)
      ELSE IF c \in {SQ, DQ}
      THEN LET lit == StringLiteral(s, p, <<>>) IN
           IF lit.ok THEN TokenizeFrom(s, lit.next, Append(acc, lit.tok), level)
           ELSE SyntaxError
      ELSE IF c = "." /\ At(s, p + 1) = "." /\ At(s, p + 2) = "."
      THEN TokenizeFrom(s, p + 3, Append(acc, [k |-> "OP", v |-> Ellipsis]), level)
      ELSE IF c \in {"<", ">"} /\ At(s, p + 1) \in {c, ">"}
      THEN TokenizeFrom(s, p + 2, Append(acc, [k |-> "OP", v |-> <<c, s[p + 1]>>]), level)
      ELSE IF c \in {"(", "[", "{"}
      THEN IF level >= MAXLEVEL THEN SyntaxError
           ELSE TokenizeFrom(s, p + 1, Append(acc, [k |-> "OP", v |-> <<c>>]), level + 1)
      ELSE IF c \in {")", "]"}
      THEN IF level = 0 THEN SyntaxError
           ELSE TokenizeFrom(s, p + 1, Append(acc, [k |-> "OP", v |-> <<c>>]), level - 1)
      ELSE IF c \in OneCharOps
      THEN TokenizeFrom(s, p + 1, Append(acc, [k |-> "OP", v |-> <<c>>]), level)
      ELSE SyntaxError

\* the tokens of s from position p on, appended to acc
Tokenize(s, p, acc) == TokenizeFrom(s, p, acc, 0)

Tok(toks, p) == IF p <= Len(toks) THEN toks[p] ELSE [k |-> "END", v |-> <<>>]

IsOp(t, o) == t.k = "OP" /\ t.v = <<o>>

\* the binary operators of one precedence level, loosest first
BinOps(level) ==
    CASE level = 1 -> {<<"|">>}
      [] level = 2 -> {<<"<", "<">>, <<">", ">">>}
      [] level = 3 -> {<<"+">>}

RECURSIVE StringRun(_, _, _, _)
\* adjacent string literals are one constant: bytes when all of them are
\* bytes, a JoinedStr when one of them is an f-string, and no expression
\* when bytes stand next to anything else; kinds is the set of kinds so far
StringRun(toks, p, acc, kinds) ==
    IF Tok(toks, p).k = "STRING"
    THEN StringRun(toks, p + 1, acc \o toks[p].v, kinds \cup {toks[p].kind})
    ELSE IF "bytes" \in kinds /\ kinds # {"bytes"} THEN SyntaxError
    ELSE IF "fstr" \in kinds
    THEN [ok |-> TRUE, next |-> p,
          node |-> [t |-> "JoinedStr",
                    values |-> IF acc = <<>> THEN <<>>
                               ELSE << [t |-> "Constant",
                                        value |-> [k |-> "str", v |-> acc]] >>]]
    ELSE [ok |-> TRUE, next |-> p,
          node |-> [t |-> "Constant",
                    value |-> [k |-> IF kinds = {"bytes"} THEN "bytes" ELSE "str",
                               v |-> acc]]]

RECURSIVE Parse(_, _, _, _)
\* The recursive-descent parser: Parse(rule, toks, p, a) parses from token
\* p on by one rule of the grammar, a holding what the rule has parsed so
\* far.  It gives [ok, node, next] (rule "elts": [ok, elts, comma, next]),
\* or SyntaxError.
\*   expr      a comparison chain of bitwise-or expressions
\*   compare   the rest of a comparison chain after a.left
\*   binary    the left-associative binary operators of level a.level
\*   binrest   the rest of such a chain after a.left
\*   factor    unary +, else a primary: an atom and its trailers
\*   trailers  .NAME, [slices] and (arguments) after the primary a.node
\*   atom      a name, a constant, a string, a (group or tuple), a [list]
\*   elts      comma-separated expressions up to the delimiter a.close;
\*             comma tells whether the last one was followed by a comma
Parse(rule, toks, p, a) ==
    LET t == Tok(toks, p) IN
    CASE rule = "expr" ->
           LET l == Parse("binary", toks, p, [level |-> 1]) IN
           IF l.ok
           THEN Parse("compare", toks, l.next,
                      [left |-> l.node, ops |-> <<>>, comps |-> <<>>])
           ELSE SyntaxError
      [] rule = "compare" ->
           IF IsOp(t, "<") \/ IsOp(t, ">")
           THEN LET r == Parse("binary", toks, p + 1, [level |-> 1]) IN
                IF r.ok
                THEN Parse("compare", toks, r.next,
                           [left |-> a.left, ops |-> Append(a.ops, t.v),
                            comps |-> Append(a.comps, r.node)])
                ELSE SyntaxError
           ELSE [ok |-> TRUE, next |-> p,
                 node |-> IF a.ops = <<>> THEN a.left
                          ELSE [t |-> "Compare", left |-> a.left, ops |-> a.ops,
                                comparators |-> a.comps]]
      [] rule = "binary" ->
           IF a.level > 3 THEN Parse("factor", toks, p, <<>>)
           ELSE LET l == Parse("binary", toks, p, [level |-> a.level + 1]) IN
                IF l.ok
                THEN Parse("binrest", toks, l.next, [level |-> a.level, left |-> l.node])
                ELSE SyntaxError
      [] rule = "binrest" ->
           IF t.k = "OP" /\ t.v \in BinOps(a.level)
           THEN LET r == Parse("binary", toks, p + 1, [level |-> a.level + 1]) IN
                IF r.ok
                THEN Parse("binrest", toks, r.next,
                           [level |-> a.level,
                            left |-> [t |-> "BinOp", left |-> a.left, op |-> t.v,
                                      right |-> r.node]])
                ELSE SyntaxError
           ELSE [ok |-> TRUE, next |-> p, node |-> a.left]
      [] rule = "factor" ->
           IF IsOp(t, "+")
           THEN LET r == Parse("factor", toks, p + 1, <<>>) IN
                IF r.ok
                THEN [ok |-> TRUE, next |-> r.next,
                      node |-> [t |-> "UnaryOp", op |-> <<"+">>, operand |-> r.node]]
                ELSE SyntaxError
           ELSE LET at == Parse("atom", toks, p, <<>>) IN
                IF at.ok THEN Parse("trailers", toks, at.next, [node |-> at.node])
                ELSE SyntaxError
      [] rule = "trailers" ->
           IF IsOp(t, ".")
           THEN LET n == Tok(toks, p + 1) IN
                IF n.k = "NAME" /\ n.v \notin ConstNames \cup Keywords \cup OperatorKeywords
                THEN Parse("trailers", toks, p + 2,
                           [node |-> [t |-> "Attribute", value |-> a.node, attr |-> n.v]])
                ELSE SyntaxError
           ELSE IF IsOp(t, "[")
           THEN LET r == Parse("elts", toks, p + 1,
                               [close |-> "]", acc |-> <<>>, comma |-> FALSE]) IN
                IF r.ok /\ r.elts # <<>>
                THEN Parse("trailers", toks, r.next,
                           [node |-> [t |-> "Subscript", value |-> a.node,
                                      slice |-> IF Len(r.elts) = 1 /\ ~r.comma
                                                THEN r.elts[1]
                                                ELSE [t |-> "Tuple", elts |-> r.elts]]])
                ELSE SyntaxError
           ELSE IF IsOp(t, "(")
           THEN LET r == Parse("elts", toks, p + 1,
                               [close |-> ")", acc |-> <<>>, comma |-> FALSE]) IN
                IF r.ok
                THEN Parse("trailers", toks, r.next,
                           [node |-> [t |-> "Call", func |-> a.node, args |-> r.elts]])
                ELSE SyntaxError
           ELSE [ok |-> TRUE, next |-> p, node |-> a.node]
      [] rule = "atom" ->
           IF t.k = "NAME"
           THEN IF t.v \in ConstNames
                THEN [ok |-> TRUE, next |-> p + 1,
                      node |-> [t |-> "Constant", value |-> [k |-> "name", v |-> t.v]]]
                ELSE IF t.v \in Keywords \cup OperatorKeywords THEN SyntaxError
                ELSE [ok |-> TRUE, next |-> p + 1, node |-> [t |-> "Name", id |-> t.v]]
           ELSE IF t.k = "STRING" THEN StringRun(toks, p, <<>>, {})
           ELSE IF t.k = "OP" /\ t.v = Ellipsis
           THEN [ok |-> TRUE, next |-> p + 1,
                 node |-> [t |-> "Constant",
                           value |-> [k |-> "name",
                                      v |-> <<"E","l","l","i","p","s","i","s">>]]]
           ELSE IF IsOp(t, "(")
           THEN LET r == Parse("elts", toks, p + 1,
                               [close |-> ")", acc |-> <<>>, comma |-> FALSE]) IN
                IF ~r.ok THEN SyntaxError
                ELSE [ok |-> TRUE, next |-> r.next,
                      node |-> IF Len(r.elts) = 1 /\ ~r.comma THEN r.elts[1]
                               ELSE [t |-> "Tuple", elts |-> r.elts]]
           ELSE IF IsOp(t, "[")
           THEN LET r == Parse("elts", toks, p + 1,
                               [close |-> "]", acc |-> <<>>, comma |-> FALSE]) IN
                IF ~r.ok THEN SyntaxError
                ELSE [ok |-> TRUE, next |-> r.next,
                      node |-> [t |-> "List", elts |-> r.elts]]
           ELSE SyntaxError
      [] rule = "elts" ->
           IF IsOp(t, a.close)
           THEN [ok |-> TRUE, elts |-> a.acc, comma |-> a.comma, next |-> p + 1]
           ELSE LET e == Parse("expr", toks, p, <<>>) IN
                IF ~e.ok THEN SyntaxError
                ELSE IF IsOp(Tok(toks, e.next), ",")
                THEN Parse("elts", toks, e.next + 1,
                           [close |-> a.close, acc |-> Append(a.acc, e.node),
                            comma |-> TRUE])
                ELSE IF IsOp(Tok(toks, e.next), a.close)
                THEN [ok |-> TRUE, elts |-> Append(a.acc, e.node), comma |-> FALSE,
                      next |-> e.next + 1]
                ELSE SyntaxError

ParseExpr(toks, p) == Parse("expr", toks, p, <<>>)

RECURSIVE ParseTopRest(_, _, _)
\* the rest of a top-level tuple "a, b, ..." after a comma
ParseTopRest(toks, p, acc) ==
    IF Tok(toks, p).k = "END" THEN [ok |-> TRUE, node |-> [t |-> "Tuple", elts |-> acc]]
    ELSE LET e == ParseExpr(toks, p) IN
         IF ~e.ok THEN SyntaxError
         ELSE IF Tok(toks, e.next).k = "END"
         THEN [ok |-> TRUE, node |-> [t |-> "Tuple", elts |-> Append(acc, e.node)]]
         ELSE IF IsOp(Tok(toks, e.next), ",")
         THEN ParseTopRest(toks, e.next + 1, Append(acc, e.node))
         ELSE SyntaxError

\* the whole input after its first expression e: the end, or a top-level
\* tuple
ParseTop(toks, e) ==
    IF ~e.ok THEN SyntaxError
    ELSE IF Tok(toks, e.next).k = "END" THEN [ok |-> TRUE, node |-> e.node]
    ELSE IF IsOp(Tok(toks, e.next), ",") THEN ParseTopRest(toks, e.next + 1, <<e.node>>)
    ELSE SyntaxError

ParseTokens(tk) ==
    IF tk.ok THEN ParseTop(tk.toks, ParseExpr(tk.toks, 1)) ELSE SyntaxError

\* ast.parse(s, mode='eval').body, or SyntaxError (a leading space is an
\* unexpected indent, the empty text no expression)
ast_parse(s) ==
    IF s = <<>> \/ s[1] = " " THEN SyntaxError
    ELSE ParseTokens(Tokenize(s, 1, <<>>))

(***************************************************************************)
(* AnnotationCleaner: the visitor of lines 21-62.  Visit(node) is the list *)
(* self.result the visit of node appends, in order.                        *)
(***************************************************************************)
RECURSIVE EscapeQuoted(_, _)
\* the characters of s as repr() writes them between quotes q
EscapeQuoted(s, q) ==
    IF s = <<>> THEN <<>>
    ELSE (IF Head(s) \in {q, BS} THEN <<BS, Head(s)>>
          ELSE IF \E c \in DOMAIN SimpleEscapes : SimpleEscapes[c] = Head(s)
          THEN <<BS, CHOOSE c \in DOMAIN SimpleEscapes : SimpleEscapes[c] = Head(s)>>
          ELSE <<Head(s)>>)
         \o EscapeQuoted(Tail(s), q)

\* a repr that always writes single quotes
repr_single_quoted(value) ==
    IF value.k = "name" THEN value.v
    ELSE (IF value.k = "bytes" THEN <<"b">> ELSE <<>>)
         \o <<SQ>> \o EscapeQuoted(value.v, SQ) \o <<SQ>>

\* repr(node.value): a str in single quotes, or in double quotes when it
\* holds a single quote and no double quote; bytes the same after a "b";
\* None, True, False and Ellipsis by name
repr(value) ==
    IF value.k = "name" THEN value.v
    ELSE LET q == IF SQ \in Chars(value.v) /\ DQ \notin Chars(value.v) THEN DQ ELSE SQ
         IN  (IF value.k = "bytes" THEN <<"b">> ELSE <<>>)
             \o <<q>> \o EscapeQuoted(value.v, q) \o <<q>>

RECURSIVE visit(_)
RECURSIVE visit_each(_, _)
RECURSIVE visit_elts(_, _)
\* lines 27-29
visit_Name(node) == <<node.id>>

\* a visit_Attribute that keeps the segment before the last
visit_Attribute_parent(node) ==
    IF node.value.t = "Attribute"
    THEN <<node.value.attr, <<".">>, node.attr>>
    ELSE <<node.attr>>

\* a visit_Attribute that renders the whole chain
visit_Attribute_qualified(node) ==
    visit(node.value) \o << <<".">>, node.attr >>

\* lines 31-34
visit_Attribute(node) == <<node.attr>>

\* a visit_Subscript without the isinstance(node.slice, ast.Tuple) branch
visit_Subscript_single(node) ==
    visit(node.value) \o << <<"[">> >> \o visit(node.slice) \o << <<"]">> >>

\* lines 36-51
visit_Subscript(node) ==
    visit(node.value) \o << <<"[">> >>
    \o (IF node.slice.t = "Tuple" THEN visit_elts(node.slice.elts, 1)
        ELSE visit(node.slice))
    \o << <<"]">> >>

\* lines 53-55
visit_Constant(node) == <<repr(node.value)>>

\* lines 57-62
visit_BinOp(node) ==
    visit(node.left)
    \o (IF node.op = <<"|">> THEN << <<" ", "|", " ">> >> ELSE <<>>)
    \o visit(node.right)

\* ast.NodeVisitor.generic_visit, for the node types without a visit_
\* method: the child nodes in field order
generic_visit(node) ==
    CASE node.t = "Call" -> visit(node.func) \o visit_each(node.args, 1)
      [] node.t \in {"List", "Tuple"} -> visit_each(node.elts, 1)
      [] node.t = "UnaryOp" -> visit(node.operand)
      [] node.t = "JoinedStr" -> visit_each(node.values, 1)
      [] node.t = "Compare" -> visit(node.left) \o visit_each(node.comparators, 1)

\* ast.NodeVisitor.visit: dispatch on the node type
visit(node) ==
    CASE node.t = "Name" -> visit_Name(node)
      [] node.t = "Attribute" -> visit_Attribute(node)
      [] node.t = "Subscript" -> visit_Subscript(node)
      [] node.t = "Constant" -> visit_Constant(node)
      [] node.t = "BinOp" -> visit_BinOp(node)
      [] OTHER -> generic_visit(node)

\* the visits of a list of child nodes, from the i-th on
visit_each(nodes, i) ==
    IF i > Len(nodes) THEN <<>> ELSE visit(nodes[i]) \o visit_each(nodes, i + 1)

\* the loop of lines 43-46, from the i-th element on
visit_elts(elts, i) ==
    IF i > Len(elts) THEN <<>>
    ELSE (IF i > 1 THEN << <<",", " ">> >> ELSE <<>>)
         \o visit(elts[i]) \o visit_elts(elts, i + 1)

(***************************************************************************)
(* The normalizer, lines 65-122.  A call returns [raised, value]: raised   *)
(* is "" and value the returned str, or raised names the exception that    *)
(* leaves the call.                                                        *)
(***************************************************************************)
Returned(v) == [raised |-> "", value |-> v]

Raised(e) == [raised |-> e, value |-> <<>>]

\* lines 72-75: the cleaner applied to the parsed tree
Render(tree) ==
    IF tree.ok THEN Returned(Concat(visit(tree.node))) ELSE Raised("SyntaxError")

\* the try body of clean_annotation_ast, lines 69-75
ast_render(annotation_str) == Render(ast_parse(annotation_str))

\* a handler that gives the annotation back as it came
ExceptReturnInput(r, annotation_str) ==
    IF r.raised \in {"SyntaxError", "ValueError"} THEN Returned(annotation_str) ELSE r

\* lines 77-79: except (SyntaxError, ValueError) around the try body's
\* outcome r
ExceptSyntaxOrValueError(r, annotation_str) ==
    IF r.raised \in {"SyntaxError", "ValueError"}
    THEN Returned(clean_annotation_pattern(annotation_str))
    ELSE r

\* lines 65-79
clean_annotation_ast(annotation_str) ==
    ExceptSyntaxOrValueError(ast_render(annotation_str), annotation_str)

\* lines 102-104
format_annotation_with_color(annotation, color) ==
    <<"<","f","g","=">> \o color \o <<">","(">> \o annotation \o <<")","<","/",">">>

\* lines 114-116: except Exception around the outcome r of line 113
ExceptException(r, annotation_str) ==
    IF r.raised # "" THEN clean_annotation_pattern(annotation_str) ELSE r.value

\* lines 118-122; color <<>> stands for None (and for "", which is as false)
ApplyColor(clean_annotation, color) ==
    IF color # <<>>
    THEN Returned(format_annotation_with_color(clean_annotation, color))
    ELSE Returned(clean_annotation)

\* lines 107-122
clean_annotation_string(field_annotation, color) ==
    ApplyColor(ExceptException(clean_annotation_ast(field_annotation), field_annotation),
               color)

(***************************************************************************)
(* The docstring parameter extractor, lines 125-188.  A dict is a function *)
(* from its keys to their values.                                          *)
(***************************************************************************)
EmptyDict == [k \in {} |-> <<>>]

\* d[k] = v
DictSet(d, k, v) == [x \in (DOMAIN d) \cup {k} |-> IF x = k THEN v ELSE d[x]]

RECURSIVE LStrip(_)
LStrip(s) == IF s # <<>> /\ Head(s) \in SpaceChar THEN LStrip(Tail(s)) ELSE s

RECURSIVE RStrip(_)
RStrip(s) ==
    IF s # <<>> /\ s[Len(s)] \in SpaceChar THEN RStrip(SubSeq(s, 1, Len(s) - 1)) ELSE s

\* str.strip()
Strip(s) == RStrip(LStrip(s))

ParamWord == <<":","p","a","r","a","m">>

\* r':param\s+(\w+):\s*(.+?)(?=\n\s*:|\n\s*\n|$)', re.MULTILINE | re.DOTALL
google_pattern ==
    Lit(ParamWord)
    \o <<Plus(In(SpaceChar)),
         GroupOpen(1), Plus(In(WordChar)), GroupClose(1),
         One(In({":"})), Star(In(SpaceChar)),
         GroupOpen(2), LazyPlus(AnyChar), GroupClose(2),
         Lookahead(<< <<One(In({NL})), Star(In(SpaceChar)), One(In({":"}))>>,
                      <<One(In({NL})), Star(In(SpaceChar)), One(In({NL}))>>,
                      <<Dollar(TRUE)>> >>)>>

\* line 168: the same pattern again
sphinx_pattern == google_pattern

ParametersLine == <<"P","a","r","a","m","e","t","e","r","s","\n">>

\* r'Parameters\n-+\n(.*?)(?=\n\s*\n|\n\s*[A-Z]|\Z)', re.DOTALL
numpy_pattern ==
    Lit(ParametersLine)
    \o <<Plus(In({"-"})), One(In({NL})),
         GroupOpen(1), LazyStar(AnyChar), GroupClose(1),
         Lookahead(<< <<One(In({NL})), Star(In(SpaceChar)), One(In({NL}))>>,
                      <<One(In({NL})), Star(In(SpaceChar)), One(In(Upper))>>,
                      <<EndOfText>> >>)>>

\* r'(\w+)\s*:\s*[^\n]*\n\s*(.+?)(?=\n\s*\w+\s*:|$)', re.DOTALL
param_pattern ==
    <<GroupOpen(1), Plus(In(WordChar)), GroupClose(1),
      Star(In(SpaceChar)), One(In({":"})), Star(In(SpaceChar)),
      Star(NotNewline), One(In({NL})), Star(In(SpaceChar)),
      GroupOpen(2), LazyPlus(AnyChar), GroupClose(2),
      Lookahead(<< <<One(In({NL})), Star(In(SpaceChar)), Plus(In(WordChar)),
                     Star(In(SpaceChar)), One(In({":"}))>>,
                   <<Dollar(FALSE)>> >>)>>

RECURSIVE StoreMatches(_, _, _, _, _)
\* a loop over the matches ms[i..] of text: every match sets its name
\* (overwrite, lines 162-165), or only a name not yet in the dict (lines
\* 169-173 and 182-186)
StoreMatches(ms, i, text, d, overwrite) ==
    IF i > Len(ms) THEN d
    ELSE LET param_name == Group(text, ms[i], 1)
             description == Strip(Group(text, ms[i], 2))
         IN  StoreMatches(ms, i + 1, text,
                          IF overwrite \/ param_name \notin DOMAIN d
                          THEN DictSet(d, param_name, description) ELSE d,
                          overwrite)

\* lines 160-165: the first loop
GooglePass(docstring) ==
    StoreMatches(ReFindAll(google_pattern, docstring), 1, docstring, EmptyDict, TRUE)

\* lines 167-173: the second loop
SphinxPass(docstring, d) ==
    StoreMatches(ReFindAll(sphinx_pattern, docstring), 1, docstring, d, FALSE)

\* lines 180-186: the loop over the parameter blocks of the section
NumpySection(params_section, d) ==
    StoreMatches(ReFindAll(param_pattern, params_section), 1, params_section, d, FALSE)

\* lines 177-178: if numpy_match
NumpyMatch(numpy_match, docstring, d) ==
    IF numpy_match.ok THEN NumpySection(Group(docstring, numpy_match, 1), d) ELSE d

\* lines 175-186: the Parameters section
NumpyPass(docstring, d) ==
    NumpyMatch(ReSearch(numpy_pattern, docstring), docstring, d)

\* lines 156-188
parse_docstring_manual(docstring) ==
    NumpyPass(docstring, SphinxPass(docstring, GooglePass(docstring)))

\* Python's None, and a str
None == [none |-> TRUE, text |-> <<>>]

Str(s) == [none |-> FALSE, text |-> s]

\* the truth value of None or of a str
Truthy(v) == ~v.none /\ v.text # <<>>

\* line 13-18
DocstringStyle == {"google", "numpy", "sphinx", "auto"}

\* docstring_parser.parse, line 142, is a library outside the repository:
\* what it does with a docstring is the environment's choice, either an
\* exception or a parsed docstring with a list of params, each an arg_name
\* and a description that is None or a str
ParseRaises == [raised |-> TRUE, params |-> <<>>]

Parsed(params) == [raised |-> FALSE, params |-> params]

Param(arg_name, description) == [arg_name |-> arg_name, description |-> description]

RECURSIVE CollectParams(_, _, _)
\* lines 145-148: the loop over parsed.params[i..]
CollectParams(params, i, d) ==
    IF i > Len(params) THEN d
    ELSE CollectParams(params, i + 1,
                       IF Truthy(params[i].description)
                       THEN DictSet(d, params[i].arg_name, Strip(params[i].description.text))
                       ELSE d)

\* lines 140-150: the try body
StructuredParams(parsed) ==
    IF parsed.raised THEN Raised("Exception")
    ELSE Returned(CollectParams(parsed.params, 1, EmptyDict))

\* a handler that gives up with an empty dict
ExceptEmpty(r, docstring) ==
    IF r.raised # "" THEN Returned(EmptyDict) ELSE r

\* lines 151-153: except Exception around the try body's outcome r
ExceptManual(r, docstring) ==
    IF r.raised # "" THEN Returned(parse_docstring_manual(docstring)) ELSE r

\* lines 125-153; style is never read
parse_docstring_params(docstring, style, parsed) ==
    IF ~Truthy(docstring) THEN Returned(EmptyDict)
    ELSE ExceptManual(StructuredParams(parsed), docstring.text)

(***************************************************************************)
(* The calls the model makes.  Annotation text is drawn from the strings   *)
(* of examples/example_annotation_cleaning.py and of the specification,    *)
(* from type expressions built to a bounded depth, from repr wrappers      *)
(* around dotted names, and from all short strings of pieces.              *)
(***************************************************************************)
\* nesting depth of the built type expressions
MaxDepth == 2

\* number of pieces of the arbitrary strings
MaxPieces == 3

\* example_annotation_cleaning.py lines 85-90, 100-108, 126-130, 192-199,
\* and the strings the specification names
Examples ==
    { <<"<","c","l","a","s","s"," ","'","s","t","r","'",">">>,
      <<"<","c","l","a","s","s"," ","'","i","n","t","'",">">>,
      <<"<","c","l","a","s","s"," ","'","f","l","o","a","t","'",">">>,
      <<"<","c","l","a","s","s"," ","'","b","o","o","l","'",">">>,
      <<"t","y","p","i","n","g",".","L","i","s","t","[","s","t","r","]">>,
      <<"t","y","p","i","n","g",".","D","i","c","t","[","s","t","r",","," ","A","n","y","]">>,
      <<"t","y","p","i","n","g",".","O","p","t","i","o","n","a","l","[","s","t","r","]">>,
      <<"t","y","p","i","n","g",".","U","n","i","o","n","[","s","t","r",","," ","i","n","t","]">>,
      <<"L","i","s","t","[","D","i","c","t","[","s","t","r",","," ","A","n","y","]","]">>,
      <<"O","p","t","i","o","n","a","l","[","D","i","c","t","[","s","t","r",","," ","s","t","r","]","]">>,
      <<"U","n","i","o","n","[","s","t","r",","," ","i","n","t",","," ","f","l","o","a","t","]">>,
      <<"L","i","s","t","[","D","i","c","t","[","s","t","r",","," ","U","n","i","o","n","[","s","t","r",","," ","i","n","t","]","]","]">>,
      <<"O","p","t","i","o","n","a","l","[","L","i","s","t","[","D","i","c","t","[","s","t","r",","," ","A","n","y","]","]","]">>,
      <<"D","i","c","t","[","s","t","r",","," ","U","n","i","o","n","[","L","i","s","t","[","s","t","r","]",","," ","D","i","c","t","[","s","t","r",","," ","i","n","t","]","]","]">>,
      <<"t","y","p","i","n","g",".","O","p","t","i","o","n","a","l","[","t","y","p","i","n","g",".","D","i","c","t","[","s","t","r",","," ","t","y","p","i","n","g",".","A","n","y","]","]">>,
      <<"o","u","t","e","r",".","i","n","n","e","r",".","M","y","T","y","p","e">>,
      <<"C","o","n","t","a","i","n","e","r","[","K","e","y","T",","," ","V","a","l","T","]">>,
      <<"<","c","l","a","s","s"," ","'","p","k","g",".","W","i","d","g","e","t","'",">">>,
      <<"{","{","{","n","o","t"," ","v","a","l","i","d">>,
      <<"C","a","l","l","a","b","l","e","[","[","i","n","t",","," ","s","t","r","]",","," ","b","o","o","l","]">>,
      <<"f","(","x",")">>,
      <<"a"," ","+"," ","b">>,
      <<"L","i","t","e","r","a","l","[","\"","a","\"","]">>,
      <<"L","i","t","e","r","a","l","[","'","a","'","]">>,
      <<>> }

Atoms ==
    { <<"i","n","t">>,
      <<"p","k","g",".","W","i","d","g","e","t">>,
      <<"t","y","p","i","n","g",".","A","n","y">>,
      <<"o","u","t","e","r",".","i","n","n","e","r",".","M","y","T","y","p","e">>,
      <<"'","a","'">>,
      <<"\"","a","\"">>,
      <<"\"","i","t","'","s","\"">> }

\* annotations with prefixed string literals, with an escape and with
\* keywords
Literals ==
    { <<"L","i","t","e","r","a","l","[","b","'","a","'","]">>,
      <<"L","i","t","e","r","a","l","[","u","\"","a","\"","]">>,
      <<"B","'","a","'">>,
      <<"L","i","t","e","r","a","l","[","R","b","'","\\","'","'","]">>,
      <<"L","i","t","e","r","a","l","[","r","\"","a","\""," ","'","b","'","]">>,
      <<"L","i","t","e","r","a","l","[","f","'","a","'","]">>,
      <<"L","i","t","e","r","a","l","[","'","\\","n","'","]">>,
      <<"p","k","g",".","f","r","o","m">>,
      <<"L","i","s","t","[","a","s","y","n","c","]">>,
      <<"g","l","o","b","a","l",".","W","i","d","g","e","t">> }

\* the expressions one level deeper than x
Build(x) ==
    { <<"t","y","p","i","n","g",".","L","i","s","t","[">> \o x \o <<"]">>,
      <<"D","i","c","t","[","s","t","r",","," ">> \o x \o <<"]">>,
      <<"U","n","i","o","n","[">> \o x \o <<","," ","i","n","t",","," ","f","l","o","a","t","]">>,
      x \o <<" ","|"," ","N","o","n","e">>,
      <<"p","k","g",".","P","a","i","r","[">> \o x \o <<","," ","o","u","t","e","r",".","i","n","n","e","r",".","M","y","T","y","p","e","]">>,
      <<"F","i","e","l","d","(">> \o x \o <<")">>,
      <<"C","a","l","l","a","b","l","e","[","[","i","n","t",","," ">> \o x \o <<"]",","," ","b","o","o","l","]">>,
      x \o <<" ","+"," ","i","n","t">> }

RECURSIVE Exprs(_)
\* the built expressions of depth at most d
Exprs(d) ==
    IF d = 0 THEN Atoms
    ELSE LET prev == Exprs(d - 1) IN prev \cup UNION {Build(x) : x \in prev}

Segments == { <<"i","n","t">>, <<"p","k","g">>, <<"w","i","d","g","e","t">>, <<"W","i","d","g","e","t">>, <<"t","y","p","i","n","g">> }

\* dotted names of one, two and three segments
DottedNames ==
    Segments
    \cup {a \o <<".">> \o b : a, b \in Segments}
    \cup {a \o <<".">> \o b \o <<".">> \o c : a, b, c \in Segments}

\* str(cls) of a class named w
ClassRepr(w) == ClassOpen \o w \o ClassClose

Wrapped == {ClassRepr(w) : w \in DottedNames}

Pieces ==
    { <<"p","k","g">>, <<"W","i","d","g","e","t">>, <<".">>, <<"[">>, <<"]">>, <<","," ">>, ClassOpen, ClassClose }

RECURSIVE PieceStrings(_)
\* the strings of at most n pieces
PieceStrings(n) ==
    IF n = 0 THEN {<<>>}
    ELSE LET shorter == PieceStrings(n - 1) IN
         shorter \cup {s \o q : s \in shorter, q \in Pieces}

Annotations ==
    Examples \cup Literals \cup Exprs(MaxDepth) \cup Wrapped \cup PieceStrings(MaxPieces)

\* number of pieces of the docstrings
MaxDocPieces == 3

DocPieces ==
    { <<":","p","a","r","a","m"," ","x",":"," ","f","i","r","s","t">>,
      <<":","p","a","r","a","m"," ","x",":"," ","s","e","c","o","n","d">>,
      <<":","p","a","r","a","m"," ","y",":">>,
      <<"\n">>,
      <<" ">>,
      <<"P","a","r","a","m","e","t","e","r","s","\n","-","-","-","\n">>,
      <<"x"," ",":"," ","i","n","t","\n"," "," "," "," ","T","h","i","r","d">> }

RECURSIVE DocStrings(_)
\* the texts of at most n pieces
DocStrings(n) ==
    IF n = 0 THEN {<<>>}
    ELSE LET shorter == DocStrings(n - 1) IN
         shorter \cup {s \o q : s \in shorter, q \in DocPieces}

\* docstrings in the three conventions the manual extractor looks for; the
\* last one has U+000B as white space
DocExamples ==
    { <<":","p","a","r","a","m"," ","x",":"," ","f","i","r","s","t","\n"," "," "," "," ","c","o","n","t","i","n","u","e","d","\n",":","p","a","r","a","m"," ","y",":"," ","o","t","h","e","r">>,
      <<"S","u","m","m","a","r","y",".","\n","\n",":","p","a","r","a","m"," ","x",":"," ","f","i","r","s","t","\n","\n",":","r","e","t","u","r","n","s",":"," ","y">>,
      <<":","p","a","r","a","m"," ","y",":"," "," ","\n">>,
      <<"P","a","r","a","m","e","t","e","r","s","\n","-","-","-","\n","x"," ",":"," ","i","n","t","\n"," "," "," "," ","t","h","i","r","d">>,
      <<"P","a","r","a","m","e","t","e","r","s","\n","-","-","-","\n","x"," ",":"," ","i","n","t","\n"," "," "," "," ","T","h","i","r","d","\n","y"," ",":"," ","s","t","r","\n"," "," "," "," ","o","t","h","e","r">>,
      <<"P","a","r","a","m","e","t","e","r","s","\n","-","-","-","\n","y"," ",":"," ","s","t","r","\n"," "," "," "," ","o","t","h","e","r","\n","x"," ",":"," ","i","n","t","\n"," "," "," "," ","T","h","i","r","d">>,
      <<"A","r","g","s",":","\n"," "," "," "," ","x",":"," ","f","i","r","s","t">>,
      <<":","p","a","r","a","m"," ","x",":"," ","f","i","r","s","t","","\n",":","p","a","r","a","m","","y",":"," ","o","t","h","e","r">> }

\* an absent docstring, and the texts
Docstrings == {None} \cup {Str(s) : s \in DocExamples \cup DocStrings(MaxDocPieces)}

\* what docstring_parser.parse may do
ParseOutcomes ==
    { ParseRaises,
      Parsed(<<>>),
      Parsed(<<Param(<<"x">>, Str(<<" ","f","i","r","s","t"," ">>)), Param(<<"y">>, None)>>),
      Parsed(<<Param(<<"x">>, Str(<<"f","i","r","s","t">>)), Param(<<"y">>, Str(<<>>)),
               Param(<<"x">>, Str(<<"s","e","c","o","n","d">>))>>),
      Parsed(<<Param(<<"y">>, Str(<<" ">>))>>) }

\* color=None, and a color name
NoColor == <<>>

Colors == {NoColor, <<"c","y","a","n">>}

VARIABLES
    pc,          \* which call comes next
    annotation,  \* field_annotation of the first clean_annotation_string call
    color,       \* its color argument
    result,      \* what that call returned or raised
    again,       \* what clean_annotation_string(result) returned or raised
    docstring,   \* the docstring of the extractor's call
    style,       \* its style argument
    parsed,      \* what docstring_parser.parse did in that call
    params       \* what the extractor returned or raised

vars == <<pc, annotation, color, result, again, docstring, style, parsed, params>>

annotationVars == <<annotation, color, result, again>>

docVars == <<docstring, style, parsed, params>>

NoResult == Returned(<<>>)

NoParams == Returned(EmptyDict)

Init ==
    /\ pc = "start"
    /\ annotation \in Annotations
    /\ color = NoColor
    /\ result = NoResult
    /\ again = NoResult
    /\ docstring = None
    /\ style = "auto"
    /\ parsed = ParseRaises
    /\ params = NoParams

\* clean_annotation_string(annotation, color)
Normalize ==
    /\ pc = "start"
    /\ \E c \in Colors :
          /\ color' = c
          /\ result' = clean_annotation_string(annotation, c)
    /\ pc' = "cleaned"
    /\ UNCHANGED <<annotation, again>>
    /\ UNCHANGED docVars

\* clean_annotation_string(result): the normalizer applied to its own
\* output
Renormalize ==
    /\ pc = "cleaned"
    /\ color = NoColor
    /\ result.raised = ""
    /\ again' = clean_annotation_string(result.value, NoColor)
    /\ pc' = "recleaned"
    /\ UNCHANGED <<annotation, color, result>>
    /\ UNCHANGED docVars

Next == Normalize \/ Renormalize

Spec == Init /\ [][Next]_vars

DocInit ==
    /\ pc = "start"
    /\ annotation = <<>>
    /\ color = NoColor
    /\ result = NoResult
    /\ again = NoResult
    /\ docstring \in Docstrings
    /\ style = "auto"
    /\ parsed = ParseRaises
    /\ params = NoParams

\* parse_docstring_params(docstring, style)
ExtractParams ==
    /\ pc = "start"
    /\ \E st \in DocstringStyle, outcome \in ParseOutcomes :
          /\ style' = st
          /\ parsed' = outcome
          /\ params' = parse_docstring_params(docstring, st, outcome)
    /\ pc' = "extracted"
    /\ UNCHANGED docstring
    /\ UNCHANGED annotationVars

\* _parse_docstring_manual(docstring), called on a str
ExtractManual ==
    /\ pc = "start"
    /\ ~docstring.none
    /\ params' = Returned(parse_docstring_manual(docstring.text))
    /\ pc' = "manual"
    /\ UNCHANGED <<docstring, style, parsed>>
    /\ UNCHANGED annotationVars

DocNext == ExtractParams \/ ExtractManual

DocSpec == DocInit /\ [][DocNext]_vars

(***************************************************************************)
(* What the specification says of a normalizer call, in terms of the tree  *)
(* ast.parse gives for its annotation.                                     *)
(***************************************************************************)
\* the tree of the call's annotation
Tree == ast_parse(annotation)

\* normalize(annotation), the call without a color, has returned
Normalized == pc # "start" /\ color = NoColor

\* a chain of identifiers a.b.c
RECURSIVE IsDottedChain(_)
IsDottedChain(node) ==
    \/ node.t = "Name"
    \/ node.t = "Attribute" /\ IsDottedChain(node.value)

\* the grammar of the specification: identifier, dotted chain, subscript
\* with at least one argument, | union, literal constant
RECURSIVE InGrammar(_)
InGrammar(node) ==
    CASE node.t = "Name" -> TRUE
      [] node.t = "Attribute" -> IsDottedChain(node)
      [] node.t = "Constant" -> TRUE
      [] node.t = "BinOp" ->
           node.op = <<"|">> /\ InGrammar(node.left) /\ InGrammar(node.right)
      [] node.t = "Subscript" ->
           /\ InGrammar(node.value)
           /\ IF node.slice.t = "Tuple"
              THEN /\ Len(node.slice.elts) >= 1
                   /\ \A i \in 1..Len(node.slice.elts) : InGrammar(node.slice.elts[i])
              ELSE InGrammar(node.slice)
      [] OTHER -> FALSE

\* the annotation is an expression of that grammar
InGrammarInput == Tree.ok /\ InGrammar(Tree.node)

\* the child nodes of a node
Children(node) ==
    CASE node.t = "Attribute" -> <<node.value>>
      [] node.t = "Subscript" -> <<node.value, node.slice>>
      [] node.t = "BinOp" -> <<node.left, node.right>>
      [] node.t = "Call" -> <<node.func>> \o node.args
      [] node.t \in {"List", "Tuple"} -> node.elts
      [] node.t = "UnaryOp" -> <<node.operand>>
      [] node.t = "Compare" -> <<node.left>> \o node.comparators
      [] node.t = "JoinedStr" -> node.values
      [] OTHER -> <<>>

IsKind(node, kind) ==
    IF kind = "str" THEN node.t = "Constant" /\ node.value.k = "str"
    ELSE node.t = kind

\* node or a node below it is of the kind
RECURSIVE AnyNode(_, _)
AnyNode(node, kind) ==
    \/ IsKind(node, kind)
    \/ \E i \in 1..Len(Children(node)) : AnyNode(Children(node)[i], kind)

\* the canonical text of a constant: a quoted string in single quotes, or
\* in double quotes when its value holds a single quote and no double
\* quote, and a "b" before the quoted text of a bytes constant
SpecLiteral(value) ==
    IF value.k = "name" THEN value.v
    ELSE (IF value.k = "bytes" THEN <<"b">> ELSE <<>>)
         \o (IF (\E i \in 1..Len(value.v) : value.v[i] = SQ)
                /\ (\A i \in 1..Len(value.v) : value.v[i] # DQ)
             THEN <<DQ>> \o EscapeQuoted(value.v, DQ) \o <<DQ>>
             ELSE <<SQ>> \o EscapeQuoted(value.v, SQ) \o <<SQ>>)

\* the rendering rules of the specification for a tree of the grammar
RECURSIVE SpecRender(_)
RECURSIVE SpecJoin(_, _)
SpecRender(node) ==
    CASE node.t = "Name" -> node.id
      [] node.t = "Attribute" -> node.attr
      [] node.t = "Constant" -> SpecLiteral(node.value)
      [] node.t = "BinOp" ->
           SpecRender(node.left) \o <<" ", "|", " ">> \o SpecRender(node.right)
      [] node.t = "Subscript" ->
           SpecRender(node.value) \o <<"[">>
           \o (IF node.slice.t = "Tuple" THEN SpecJoin(node.slice.elts, 1)
               ELSE SpecRender(node.slice))
           \o <<"]">>

\* the renderings of args[i..], joined by ", "
SpecJoin(args, i) ==
    IF i > Len(args) THEN <<>>
    ELSE (IF i > 1 THEN <<",", " ">> ELSE <<>>)
         \o SpecRender(args[i]) \o SpecJoin(args, i + 1)

\* the final segments of the references of a tree of the grammar, and its
\* named constants, from left to right
RECURSIVE LastSegments(_)
RECURSIVE LastSegmentsOf(_, _)
LastSegments(node) ==
    CASE node.t = "Name" -> <<node.id>>
      [] node.t = "Attribute" -> <<node.attr>>
      [] node.t = "Constant" -> IF node.value.k = "name" THEN <<node.value.v>> ELSE <<>>
      [] node.t = "BinOp" -> LastSegments(node.left) \o LastSegments(node.right)
      [] node.t = "Subscript" ->
           LastSegments(node.value)
           \o (IF node.slice.t = "Tuple" THEN LastSegmentsOf(node.slice.elts, 1)
               ELSE LastSegments(node.slice))

LastSegmentsOf(nodes, i) ==
    IF i > Len(nodes) THEN <<>>
    ELSE LastSegments(nodes[i]) \o LastSegmentsOf(nodes, i + 1)

\* the names among the tokens toks[i..]
RECURSIVE NameTokens(_, _)
NameTokens(toks, i) ==
    IF i > Len(toks) THEN <<>>
    ELSE (IF toks[i].k = "NAME" THEN <<toks[i].v>> ELSE <<>>) \o NameTokens(toks, i + 1)

\* the quote characters of a text, in order
RECURSIVE QuoteSeq(_)
QuoteSeq(s) ==
    IF s = <<>> THEN <<>>
    ELSE (IF Head(s) \in {SQ, DQ} THEN <<Head(s)>> ELSE <<>>) \o QuoteSeq(Tail(s))

IsWord(w) == w # <<>> /\ \A i \in 1..Len(w) : w[i] \in WordChar

\* s is "<class '" + something + "'>"
IsClassRepr(s) ==
    /\ Len(s) > Len(ClassOpen) + Len(ClassClose)
    /\ SubSeq(s, 1, Len(ClassOpen)) = ClassOpen
    /\ SubSeq(s, Len(s) - Len(ClassClose) + 1, Len(s)) = ClassClose

\* the something
Inner(s) == SubSeq(s, Len(ClassOpen) + 1, Len(s) - Len(ClassClose))

\* s is "<class 'w'>" for a word w
IsClassWord(s) == IsClassRepr(s) /\ IsWord(Inner(s))

\* s is "<class 'a.b'>" for words a and b
IsClassDotted(s) ==
    /\ IsClassRepr(s)
    /\ \E d \in 1..Len(Inner(s)) :
          /\ Inner(s)[d] = "."
          /\ IsWord(SubSeq(Inner(s), 1, d - 1))
          /\ IsWord(SubSeq(Inner(s), d + 1, Len(Inner(s))))

(***************************************************************************)
(* The properties of the normalizer, checked under Spec.                   *)
(***************************************************************************)
\* C1 as stated: normalize(normalize(x)) = normalize(x) for every string x,
\* whichever path each application takes.
C1_Idempotent == pc = "recleaned" => again = result

\* C1, amended: for every x that is an expression of the grammar
\* (identifier, dotted chain, subscript, | union, literal constant),
\* normalize(normalize(x)) = normalize(x).
C1_IdempotentInGrammar ==
    pc = "recleaned" /\ InGrammarInput => again = result

C1_Witness ==
    /\ pc = "recleaned"
    /\ annotation = <<"t","y","p","i","n","g",".","L","i","s","t","[","D","i","c","t","[","s","t","r",","," ","o","u","t","e","r",".","i","n","n","e","r",".","M","y","T","y","p","e","]","]">>
    /\ result = Returned(<<"L","i","s","t","[","D","i","c","t","[","s","t","r",","," ","M","y","T","y","p","e","]","]">>)
    /\ again = result

\* C2: clean_annotation_string returns a string and never raises, on the
\* normalizer's own output too; normalize("") is ""; and when the annotation
\* does not parse, the result is the pattern cleaner's.
C2_Total ==
    pc # "start" =>
        /\ result.raised = ""
        /\ (pc = "recleaned" => again.raised = "")
        /\ (color = NoColor /\ annotation = <<>> => result.value = <<>>)
        /\ (color = NoColor /\ ~Tree.ok =>
                result.value = clean_annotation_pattern(annotation))

C2_Witness ==
    /\ pc = "cleaned"
    /\ color = NoColor
    /\ annotation = <<"{","{","{","n","o","t"," ","v","a","l","i","d">>
    /\ ~Tree.ok
    /\ result = Returned(<<"{","{","{","n","o","t"," ","v","a","l","i","d">>)

\* C3: for every expression of the grammar, each dotted reference renders
\* as its final segment only, at every depth: the names of the result are
\* the final segments of the references, in order, and the result has no
\* "." outside its string constants.
C3_QualifierStripping ==
    Normalized /\ InGrammarInput =>
        LET toks == Tokenize(result.value, 1, <<>>) IN
        /\ toks.ok
        /\ NameTokens(toks.toks, 1) = LastSegments(Tree.node)
        /\ \A i \in 1..Len(toks.toks) : ~IsOp(toks.toks[i], ".")

C3_Witness ==
    /\ pc = "cleaned"
    /\ color = NoColor
    /\ annotation = <<"t","y","p","i","n","g",".","O","p","t","i","o","n","a","l","[","t","y","p","i","n","g",".","D","i","c","t","[","s","t","r",","," ","t","y","p","i","n","g",".","A","n","y","]","]">>
    /\ result = Returned(<<"O","p","t","i","o","n","a","l","[","D","i","c","t","[","s","t","r",","," ","A","n","y","]","]">>)

CanonicalExamples ==
    { <<"U","n","i","o","n","[","s","t","r",","," ","i","n","t",","," ","f","l","o","a","t","]">>,
      <<"C","o","n","t","a","i","n","e","r","[","K","e","y","T",","," ","V","a","l","T","]">>,
      <<"L","i","s","t","[","D","i","c","t","[","s","t","r",","," ","U","n","i","o","n","[","s","t","r",","," ","i","n","t","]","]","]">>,
      <<"D","i","c","t","[","s","t","r",","," ","U","n","i","o","n","[","L","i","s","t","[","s","t","r","]",","," ","D","i","c","t","[","s","t","r",","," ","i","n","t","]","]","]">> }

\* C4: an expression of the grammar that holds a subscript renders, at
\* every depth, as render(base) + "[" + the renderings of the arguments in
\* their order joined by ", " + "]"; a base named Union is no exception, and
\* an already canonical expression comes back unchanged.
C4_SubscriptRendering ==
    /\ Normalized /\ InGrammarInput /\ AnyNode(Tree.node, "Subscript") =>
           result.value = SpecRender(Tree.node)
    /\ Normalized /\ annotation \in CanonicalExamples => result.value = annotation

C4_Witness ==
    /\ pc = "cleaned"
    /\ color = NoColor
    /\ annotation = <<"U","n","i","o","n","[","s","t","r",","," ","i","n","t",","," ","f","l","o","a","t","]">>
    /\ result = Returned(<<"U","n","i","o","n","[","s","t","r",","," ","i","n","t",","," ","f","l","o","a","t","]">>)

\* C5: for every word w, normalize("<class 'w'>") is w.
C5_ClassWordUnwrapped ==
    Normalized /\ IsClassWord(annotation) => result.value = Inner(annotation)

C5_Witness ==
    /\ pc = "cleaned"
    /\ color = NoColor
    /\ annotation = <<"<","c","l","a","s","s"," ","'","s","t","r","'",">">>
    /\ ~Tree.ok
    /\ result = Returned(<<"s","t","r">>)

\* C6 as stated: for all words a and b, normalize("<class 'a.b'>") is "a.b".
C6_ClassDottedKeepsDot ==
    Normalized /\ IsClassDotted(annotation) => result.value = Inner(annotation)

\* C7 as stated: an annotation that parses but is not of the grammar comes
\* back as the pattern cleaner leaves it.
C7_UnsupportedFallsBack ==
    Normalized /\ Tree.ok /\ ~InGrammar(Tree.node) =>
        result.value = clean_annotation_pattern(annotation)

\* C10 as stated: the quote characters of the result are those of the
\* input, for every expression of the grammar.
C10_KeepsSourceQuotes ==
    Normalized /\ InGrammarInput => QuoteSeq(result.value) = QuoteSeq(annotation)

\* C10, amended: every string constant of an expression of the grammar is
\* rendered in its canonical form, in single quotes, or in double quotes
\* when its value holds a single quote and no double quote.
C10_CanonicalQuotes ==
    Normalized /\ InGrammarInput /\ AnyNode(Tree.node, "str") =>
        result.value = SpecRender(Tree.node)

C10_Witness ==
    /\ pc = "cleaned"
    /\ color = NoColor
    /\ annotation = <<"L","i","t","e","r","a","l","[","\"","a","\"","]">>
    /\ result = Returned(<<"L","i","t","e","r","a","l","[","'","a","'","]">>)

(***************************************************************************)
(* The properties of the docstring extractor, checked under DocSpec.       *)
(***************************************************************************)
\* text holds w as a whole line that starts at position i
LineAt(text, i, w) ==
    /\ i + Len(w) - 1 <= Len(text)
    /\ SubSeq(text, i, i + Len(w) - 1) = w
    /\ (i = 1 \/ text[i - 1] = NL)
    /\ (i + Len(w) > Len(text) \/ text[i + Len(w)] = NL)

\* C8: parse_docstring_params returns a mapping and never raises, whatever
\* the style; an empty or absent docstring gives the empty mapping; and
\* when the structured parser raises, the result is the manual extractor's.
C8_TotalWithFallback ==
    pc = "extracted" =>
        /\ params.raised = ""
        /\ (~Truthy(docstring) => params.value = EmptyDict)
        /\ (Truthy(docstring) /\ parsed.raised =>
                params.value = parse_docstring_manual(docstring.text))
        /\ (docstring = Str(<<":","p","a","r","a","m"," ","x",":"," ","f","i","r","s","t">>) /\ parsed.raised =>
                params.value = DictSet(EmptyDict, <<"x">>, <<"f","i","r","s","t">>))

C8_Witness ==
    /\ pc = "extracted"
    /\ style = "numpy"
    /\ parsed.raised
    /\ docstring = Str(<<":","p","a","r","a","m"," ","x",":"," ","f","i","r","s","t","\n",":","p","a","r","a","m"," ","y",":">>)
    /\ params = Returned(DictSet(EmptyDict, <<"x">>, <<"f","i","r","s","t">>))

\* C9 as stated: when the docstring has a line ":param x: first" and a
\* later line ":param x: second", the manual extractor maps x to "first".
C9_FirstMatchWins ==
    pc = "manual"
    /\ (\E i, j \in 1..Len(docstring.text) :
           /\ i < j
           /\ LineAt(docstring.text, i, <<":","p","a","r","a","m"," ","x",":"," ","f","i","r","s","t">>)
           /\ LineAt(docstring.text, j, <<":","p","a","r","a","m"," ","x",":"," ","s","e","c","o","n","d">>))
    => /\ <<"x">> \in DOMAIN params.value
       /\ params.value[<<"x">>] = <<"f","i","r","s","t">>

\* the positions of text where w starts
Find(text, w) ==
    {i \in 1..Len(text) :
        i + Len(w) - 1 <= Len(text) /\ SubSeq(text, i, i + Len(w) - 1) = w}

\* text[a..b] is whitespace
OnlySpaces(text, a, b) == \A k \in a..b : text[k] \in SpaceChar

\* a description stops before position p: at the end of the text, or at a
\* newline that a ":marker" line or a blank line follows
DescriptionStops(text, p) ==
    \/ p > Len(text)
    \/ /\ text[p] = NL
       /\ \E q \in (p + 1)..Len(text) :
             OnlySpaces(text, p + 1, q - 1) /\ text[q] \in {":", NL}

\* the description that starts at position s, trimmed
SpecDescription(text, s) ==
    LET stop == CHOOSE p \in s..(Len(text) + 1) :
                    /\ DescriptionStops(text, p)
                    /\ \A r \in s..(p - 1) : ~DescriptionStops(text, r)
    IN  Strip(SubSeq(text, s, stop - 1))

XParam == <<":","p","a","r","a","m"," ","x",":"," ">>

\* C11 as stated: the description of a ":param x: DESCRIPTION" match, the
\* only :param of the docstring, runs to the next ":marker" line, a blank
\* line or the end of the text, and is then trimmed.
C11_DescriptionExtent ==
    pc = "manual" =>
        \A i \in Find(docstring.text, XParam) :
            /\ Find(docstring.text, ParamWord) = {i}
            /\ i + Len(XParam) <= Len(docstring.text)
            /\ docstring.text[i + Len(XParam)] \notin SpaceChar
            => /\ <<"x">> \in DOMAIN params.value
               /\ params.value[<<"x">>]
                      = SpecDescription(docstring.text, i + Len(XParam))

\* the header line and a divider line of dashes
NumpyHeader == <<"P","a","r","a","m","e","t","e","r","s","\n","-","-","-","\n">>

\* parameter blocks: a "name : type" line and an indented description line
NumpyBlocks ==
    { [name |-> <<"x">>, text |-> <<"x"," ",":"," ","i","n","t","\n"," "," "," "," ","T","h","i","r","d">>,
       description |-> <<"T","h","i","r","d">>],
      [name |-> <<"x">>, text |-> <<"x"," ",":"," ","i","n","t","\n"," "," "," "," ","t","h","i","r","d">>,
       description |-> <<"t","h","i","r","d">>],
      [name |-> <<"y">>, text |-> <<"y"," ",":"," ","s","t","r","\n"," "," "," "," ","o","t","h","e","r">>,
       description |-> <<"o","t","h","e","r">>] }

\* a block starts at position j of the section that starts at position i:
\* only whole blocks, one per line pair, lie between i and j
RECURSIVE BlockStartsIn(_, _, _)
BlockStartsIn(text, i, j) ==
    \/ j = i
    \/ /\ i < j
       /\ \E c \in NumpyBlocks :
             /\ i \in Find(text, c.text)
             /\ i + Len(c.text) <= Len(text)
             /\ text[i + Len(c.text)] = NL
             /\ BlockStartsIn(text, i + Len(c.text) + 1, j)

\* C12 as stated: in a docstring with no :param and one Parameters header
\* with its divider, every block of the section contributes its name with
\* its trimmed description, whatever the first character of either.
C12_NumpySection ==
    pc = "manual" /\ Find(docstring.text, ParamWord) = {} =>
        \A h \in Find(docstring.text, NumpyHeader) :
            /\ Find(docstring.text, NumpyHeader) = {h}
            /\ (h = 1 \/ docstring.text[h - 1] = NL)
            => \A b \in NumpyBlocks :
                   \A j \in Find(docstring.text, b.text) :
                       /\ BlockStartsIn(docstring.text, h + Len(NumpyHeader), j)
                       /\ (j + Len(b.text) > Len(docstring.text)
                           \/ docstring.text[j + Len(b.text)] = NL)
                       => /\ b.name \in DOMAIN params.value
                          /\ params.value[b.name] = b.description

\* C13 as stated: every entry of a mapping that parse_docstring_params or
\* the manual extractor returns has a trimmed, non-empty description, and a
\* docstring that is ":param y:" and then only whitespace gives no entry.
C13_TrimmedNonEmpty ==
    pc \in {"extracted", "manual"} =>
        /\ \A k \in DOMAIN params.value :
              /\ params.value[k] # <<>>
              /\ Strip(params.value[k]) = params.value[k]
        /\ (/\ ~docstring.none
            /\ Find(docstring.text, ParamWord) = {1}
            /\ Len(docstring.text) > Len(ParamWord) + 3
            /\ SubSeq(docstring.text, 1, Len(ParamWord) + 3)
                   = ParamWord \o <<" ", "y", ":">>
            /\ OnlySpaces(docstring.text, Len(ParamWord) + 4, Len(docstring.text))
            /\ (pc = "manual" \/ parsed.raised)
            => <<"y">> \notin DOMAIN params.value)

====
